---- MODULE Spec2Model ----
(***************************************************************************)
(* Model of the HelloGitHub notification scripts:                          *)
(*   script/notify_feishu.py  - parse_markdown, upload_image,              *)
(*                              send_feishu_card, main                     *)
(*   script/daily_history.py  - read_state, write_state, get_content_file, *)
(*                              main                                       *)
(* Text is modelled as sequences of one-character strings, so that strip,  *)
(* startswith, replace and the three regular expressions of parse_markdown *)
(* are computed character by character.                                    *)
(***************************************************************************)
EXTENDS Integers, Sequences, FiniteSets, TLC

VARIABLES
    \* ---- notify_feishu.py
    pc,                \* position of the running function
    lines,             \* content.split('\n')
    idx,               \* position of the for loop of parse_markdown in lines
    current_category,  \* <<>> for None, <<c>> for the open category c
    categories,        \* the list parse_markdown builds and main iterates
    argv_file,         \* "none" | "missing" | "exists": sys.argv[1] and its file
    webhook_url,       \* TRUE iff FEISHU_WEBHOOK_URL is set and non-empty
    app_creds,         \* TRUE iff FEISHU_APP_ID and FEISHU_APP_SECRET are set
    access_token,      \* "None" or the token
    cat_i,             \* index of cat in `for cat in categories`
    item_i,            \* index of item in `for item in cat['items']`
    cat_elements,      \* elements of the card being built
    cardLog,           \* calls of send_feishu_card, in order, with their result
    uploadLog,         \* calls of upload_image, in order, with their result
    netLog,            \* network requests issued, in order
    exit_status,       \* "running" | "0" | "1"
    \* ---- daily_history.py
    hpc,               \* position of daily_history.main
    state_file,        \* content of .github/history_state
    content_files,     \* issue numbers that have a file under content/
    notify_script,     \* TRUE iff script/notify_feishu.py exists
    current_num,       \* local of daily_history.main
    file_path,         \* local of daily_history.main: <<>> for None, or the name
    notify_status,     \* exit status of the notify subprocess of this run
    writes,            \* values passed to write_state, in order
    runs               \* number of runs of daily_history.main started

parseVars == <<pc, lines, idx, current_category, categories>>
mainVars  == <<argv_file, webhook_url, app_creds, access_token, cat_i, item_i,
               cat_elements, cardLog, uploadLog, netLog, exit_status>>
histVars  == <<hpc, state_file, content_files, notify_script, current_num,
               file_path, notify_status, writes, runs>>
vars == <<parseVars, mainVars, histVars>>

-----------------------------------------------------------------------------
(* Bounds of the model *)

\* longest document parse_markdown is run on alone, in sample lines
MaxLines == 3
\* longest document a run of notify_feishu.main is given, in sample lines
MaxMainLines == 4
\* highest issue number the history driver is run up to
MaxIssue == 4
\* number of runs of daily_history.main in one behaviour
MaxRuns == 3

\* "50 element limit?" of a Feishu card
MaxElements == 50

-----------------------------------------------------------------------------
(* Characters that have no ASCII form *)

IdeographicComma == "U+3001"
FullwidthColon == "U+FF1A"

Whitespace == {" ", "\t", "\r", "\n"}
Digits == {"0", "1", "2", "3", "4", "5", "6", "7", "8", "9"}
Quotes == {"'", "\""}

(* Python string operations *)

Min(S) == CHOOSE x \in S : \A y \in S : x <= y
Max(S) == CHOOSE x \in S : \A y \in S : x >= y

Slice(s, a, b) == [k \in 1..(b - a + 1) |-> s[a + k - 1]]

RECURSIVE LStrip(_)
LStrip(s) ==
    IF s # <<>> /\ Head(s) \in Whitespace THEN LStrip(Tail(s)) ELSE s

RECURSIVE RStrip(_)
RStrip(s) ==
    IF s # <<>> /\ s[Len(s)] \in Whitespace
    THEN RStrip(SubSeq(s, 1, Len(s) - 1)) ELSE s

\* str.strip()
Strip(s) == RStrip(LStrip(s))

\* s[p:].startswith(t), with p a 1-based position
MatchAt(s, p, t) ==
    /\ p >= 1
    /\ p + Len(t) - 1 <= Len(s)
    /\ \A k \in 1..Len(t) : s[p + k - 1] = t[k]

\* str.startswith(t)
StartsWith(s, t) == MatchAt(s, 1, t)

\* `t in s`
Contains(s, t) == \E p \in 1..(Len(s) + 1) : MatchAt(s, p, t)

\* str.replace(t, ''), t non-empty: leftmost non-overlapping occurrences
RECURSIVE Remove(_, _)
Remove(s, t) ==
    IF s = <<>> THEN <<>>
    ELSE IF StartsWith(s, t) THEN Remove(SubSeq(s, Len(t) + 1, Len(s)), t)
    ELSE <<Head(s)>> \o Remove(Tail(s), t)

-----------------------------------------------------------------------------
(* The regular expressions of parse_markdown.  Each returns <<>> for no    *)
(* match and <<groups>> for a match.                                       *)

\* number of leading decimal digits
RECURSIVE DigitRun(_)
DigitRun(s) ==
    IF s # <<>> /\ Head(s) \in Digits THEN 1 + DigitRun(Tail(s)) ELSE 0

\* item_pattern.match(line): ^\d+、\[(.*?)\]\((.*?)\)(?:：|:)(.*)
item_pattern(line) ==
    LET n == Len(line)
        d == DigitRun(line)
        \* closing parenthesis of group 2, for group 1 ending before a
        Closers(a) == {b \in (a + 2)..(n - 1) :
                          line[b] = ")" /\ line[b + 1] \in {FullwidthColon, ":"}}
        Ends == {a \in (d + 3)..(n - 1) :
                    line[a] = "]" /\ line[a + 1] = "(" /\ Closers(a) # {}}
    IN  IF d >= 1 /\ MatchAt(line, d + 1, <<IdeographicComma, "[">>) /\ Ends # {}
        THEN LET a == Min(Ends)
                 b == Min(Closers(a))
             IN  <<[name |-> Slice(line, d + 3, a - 1),
                    url  |-> Slice(line, a + 2, b - 1),
                    desc |-> Slice(line, b + 2, n)]>>
        ELSE <<>>

\* img_html_pattern.search(line): <img[^>]*src=['\"](.*?)['\"][^>]*>
img_html_pattern(line) ==
    LET n == Len(line)
        \* closing quote of group 1 when the opening quote is at q
        Closers(q) == {k \in (q + 1)..n :
                          line[k] \in Quotes /\ \E m \in (k + 1)..n : line[m] = ">"}
        \* positions of "src=" reachable from "<img" at s through [^>]*
        Srcs(s) == {j \in (s + 4)..n :
                       /\ \A k \in (s + 4)..(j - 1) : line[k] # ">"
                       /\ MatchAt(line, j, <<"s", "r", "c", "=">>)
                       /\ j + 4 <= n
                       /\ line[j + 4] \in Quotes
                       /\ Closers(j + 4) # {}}
        Starts == {s \in 1..n : MatchAt(line, s, <<"<", "i", "m", "g">>) /\ Srcs(s) # {}}
    IN  IF Starts = {} THEN <<>>
        ELSE LET s == Min(Starts)
                 j == Max(Srcs(s))
                 k == Min(Closers(j + 4))
             IN  <<Slice(line, j + 5, k - 1)>>

\* img_md_pattern.search(line): !\[.*?\]\((.*?)\)
img_md_pattern(line) ==
    LET n == Len(line)
        Closers(a) == {b \in (a + 2)..n : line[b] = ")"}
        Ends(s) == {a \in (s + 2)..(n - 1) :
                       line[a] = "]" /\ line[a + 1] = "(" /\ Closers(a) # {}}
        Starts == {s \in 1..n : MatchAt(line, s, <<"!", "[">>) /\ Ends(s) # {}}
    IN  IF Starts = {} THEN <<>>
        ELSE LET s == Min(Starts)
                 a == Min(Ends(s))
                 b == Min(Closers(a))
             IN  <<Slice(line, a + 2, b - 1)>>

img_logo == <<"i", "m", "g", "_", "l", "o", "g", "o">>
licensebuttons_net ==
    <<"l", "i", "c", "e", "n", "s", "e", "b", "u", "t", "t", "o", "n", "s",
      ".", "n", "e", "t">>

\* a filter that knows the logo only
DenylistedLogoOnly(img_url) == Contains(img_url, img_logo)

\* the filter of unwanted images
Denylisted(img_url) ==
    Contains(img_url, img_logo) \/ Contains(img_url, licensebuttons_net)

-----------------------------------------------------------------------------
(* parse_markdown *)

None == <<>>
Some(c) == <<c>>

ProjectItem(m) ==
    [type |-> "project", name |-> Strip(m.name), url |-> Strip(m.url),
     desc |-> Strip(m.desc)]

ImageItem(img_url) == [type |-> "image", url |-> img_url]

AddItem(cur, item) ==
    Some([title |-> cur[1].title, items |-> Append(cur[1].items, item)])

\* the first image of a stripped line: the HTML pattern, else the markdown one
img_match(line) ==
    IF img_html_pattern(line) # <<>> THEN img_html_pattern(line)
    ELSE img_md_pattern(line)

\* the branch for a line read while a category is open
ItemLine(st, line) ==
    IF item_pattern(line) # <<>>
    THEN [cur |-> AddItem(st.cur, ProjectItem(item_pattern(line)[1])), cats |-> st.cats]
    ELSE IF img_match(line) # <<>> /\ ~Denylisted(img_match(line)[1])
    THEN [cur |-> AddItem(st.cur, ImageItem(img_match(line)[1])), cats |-> st.cats]
    ELSE st

\* a parser that reads a level-2 header as an ordinary line
Level2Ignored(st) == st

\* the level-2 header branch
Level2(st) ==
    IF st.cur # None
    THEN [cur |-> None, cats |-> Append(st.cats, st.cur[1])]
    ELSE st

\* the level-3 header branch
Level3(st, line) ==
    [cur  |-> Some([title |-> Strip(Remove(line, <<"#", "#", "#">>)), items |-> <<>>]),
     cats |-> IF st.cur # None THEN Append(st.cats, st.cur[1]) ELSE st.cats]

\* one iteration of `for line in lines`, on st = [cur, cats]
ParseLine(st, raw) ==
    LET line == Strip(raw)
    IN  IF line = <<>> THEN st
        ELSE IF StartsWith(line, <<"#", "#", " ">>) THEN Level2(st)
        ELSE IF StartsWith(line, <<"#", "#", "#", " ">>) THEN Level3(st, line)
        ELSE IF st.cur # None THEN ItemLine(st, line)
        ELSE st

\* what follows the loop
ParseEnd(st) ==
    IF st.cur # None THEN Append(st.cats, st.cur[1]) ELSE st.cats

RECURSIVE ParseFrom(_, _)
ParseFrom(st, ls) ==
    IF ls = <<>> THEN st ELSE ParseFrom(ParseLine(st, Head(ls)), Tail(ls))

\* the whole function
parse_markdown(ls) == ParseEnd(ParseFrom([cur |-> None, cats |-> <<>>], ls))

-----------------------------------------------------------------------------
(* Sample lines of a document *)

LineH3 ==
    <<"#", "#", "#", " ", "A">>
LineH3Hashes ==
    <<"#", "#", "#", " ", "#", "#", "#">>
LineH2 ==
    <<" ", "#", "#", " ", "S">>
LineItem ==
    <<"1", IdeographicComma, "[", "N", "]", "(", "u", ")", FullwidthColon, "d">>
LineItemBlank ==
    <<"2", IdeographicComma, "[", " ", "]", "(", " ", ")", ":">>
LineText ==
    <<"x">>
LineBlank ==
    <<" ", "\t">>
LineImgMd ==
    <<"!", "[", "a", "]", "(", "p", ")">>
LineImgHtml ==
    <<"<", "i", "m", "g", " ", "s", "r", "c", "=", "'", "q", "'", ">">>
LineImgLogo ==
    <<"<", "i", "m", "g", " ", "s", "r", "c", "=", "\"", "i", "m", "g", "_", "l",
      "o", "g", "o", "\"", ">", "!", "[", "a", "]", "(", "p", ")">>
LineImgLicense ==
    <<"!", "[", "a", "]", "(", "l", "i", "c", "e", "n", "s", "e", "b", "u", "t",
      "t", "o", "n", "s", ".", "n", "e", "t", ")">>

LineH3B ==
    <<"#", "#", "#", " ", "B">>

SampleLines ==
    {LineH3, LineH3Hashes, LineH2, LineItem, LineItemBlank, LineText, LineBlank,
     LineImgMd, LineImgHtml, LineImgLogo, LineImgLicense}

SeqsUpTo(S, n) == UNION {[1..k -> S] : k \in 0..n}

\* the documents parse_markdown is run on
Documents == SeqsUpTo(SampleLines, MaxLines)

-----------------------------------------------------------------------------
(* parse_markdown as a loop: one action per iteration, one for the return *)

ParseIdle ==
    /\ argv_file = "exists" /\ webhook_url = FALSE /\ app_creds = FALSE
    /\ access_token = "None" /\ cat_i = 0 /\ item_i = 0 /\ cat_elements = <<>>
    /\ cardLog = <<>> /\ uploadLog = <<>> /\ netLog = <<>> /\ exit_status = "running"

HistIdle ==
    /\ hpc = "idle" /\ state_file = [exists |-> FALSE, text |-> <<>>]
    /\ content_files = {} /\ notify_script = TRUE /\ current_num = 0
    /\ file_path = <<>> /\ notify_status = "none" /\ writes = <<>> /\ runs = 0

InitParse ==
    /\ pc = "parse_loop"
    /\ lines \in Documents
    /\ idx = 1
    /\ current_category = None
    /\ categories = <<>>
    /\ ParseIdle
    /\ HistIdle

ParseStep ==
    /\ pc = "parse_loop"
    /\ idx <= Len(lines)
    /\ LET st == ParseLine([cur |-> current_category, cats |-> categories], lines[idx])
       IN  /\ current_category' = st.cur
           /\ categories' = st.cats
    /\ idx' = idx + 1
    /\ UNCHANGED <<pc, lines, mainVars, histVars>>

ParseReturn ==
    /\ pc = "parse_loop"
    /\ idx > Len(lines)
    /\ categories' = ParseEnd([cur |-> current_category, cats |-> categories])
    /\ pc' = "parsed"
    /\ UNCHANGED <<lines, idx, current_category, mainVars, histVars>>

NextParse == ParseStep \/ ParseReturn

SpecParse == InitParse /\ [][NextParse]_vars

-----------------------------------------------------------------------------
(* Properties of parse_markdown, checked under SpecParse *)

\* the loop and the recursive definition of the function agree
ParseAgrees == pc = "parsed" => categories = parse_markdown(lines)

\* the line the loop is about to read, stripped; <<>> past the end
NextLine ==
    IF pc = "parse_loop" /\ idx <= Len(lines) THEN Strip(lines[idx]) ELSE <<>>

IsLevel2(line) == StartsWith(line, <<"#", "#", " ">>)
IsLevel3(line) == StartsWith(line, <<"#", "#", "#", " ">>)

\* every category built so far, closed or open
AllCategories == categories \o current_category

\* C1: reading a line that starts with '## ' while a category is open closes
\* that category, appending it with exactly the items collected so far; and
\* while no category is open, no step but the reading of a line that starts
\* with '### ' changes the list of categories or opens one, so no project
\* or image line after the '## ' line is added to any category.
C1_Level2ClosesCategory ==
    [][/\ (IsLevel2(NextLine) /\ current_category # None)
            => /\ categories' = Append(categories, current_category[1])
               /\ current_category' = None
       /\ (current_category = None /\ ~IsLevel3(NextLine))
            => /\ categories' = categories
               /\ current_category' = None]_vars

\* a document "### ..", "## ..", project line was parsed: the category was
\* closed empty and the project line was dropped
C1_Witness ==
    /\ pc = "parsed"
    /\ Len(lines) = 3
    /\ IsLevel3(Strip(lines[1]))
    /\ IsLevel2(Strip(lines[2]))
    /\ item_pattern(Strip(lines[3])) # <<>>
    /\ Len(categories) = 1
    /\ categories[1].items = <<>>

\* C6: every category parse_markdown returns has a non-empty title.
C6_TitleNonEmpty ==
    pc = "parsed" => \A k \in 1..Len(categories) : categories[k].title # <<>>

\* C7: every project item appended to a category has a name and a url that
\* are non-empty after trimming.
C7_NameAndUrlNonEmpty ==
    \A k \in 1..Len(AllCategories) :
        \A j \in 1..Len(AllCategories[k].items) :
            LET item == AllCategories[k].items[j]
            IN  item.type = "project"
                    => Strip(item.name) # <<>> /\ Strip(item.url) # <<>>

\* C8: no image item of any category has a url that contains 'img_logo' or
\* 'licensebuttons.net'.
C8_NoDenylistedImage ==
    \A k \in 1..Len(AllCategories) :
        \A j \in 1..Len(AllCategories[k].items) :
            LET item == AllCategories[k].items[j]
            IN  item.type = "image"
                    => /\ ~Contains(item.url, img_logo)
                       /\ ~Contains(item.url, licensebuttons_net)

\* a license-button image line was read in an open category and returned no
\* item, next to an image line that did
C8_Witness ==
    /\ pc = "parsed"
    /\ Len(lines) = 3
    /\ IsLevel3(Strip(lines[1]))
    /\ img_match(Strip(lines[2])) # <<>>
    /\ Contains(img_match(Strip(lines[2]))[1], licensebuttons_net)
    /\ img_match(Strip(lines[3])) # <<>>
    /\ Len(categories) = 1
    /\ Len(categories[1].items) = 1
    /\ categories[1].items[1].type = "image"

-----------------------------------------------------------------------------
(* notify_feishu.py: the network-facing functions.  The outcome of each    *)
(* request is an input of the call.                                        *)

TokenOutcomes == {"ok", "error"}
UploadOutcomes == {"download_error", "upload_error", "ok"}
SendOutcomes == {"ok", "rejected", "error"}

\* [token, net]: the value returned and the requests issued
get_tenant_access_token(outcome) ==
    [token |-> IF outcome = "ok" THEN "t-token" ELSE "None",
     net   |-> <<"token">>]

\* the image_key Feishu issues for an uploaded image
ImageKey(image_url) == <<"img_key:">> \o image_url

\* [key, net]: the value returned (<<>> for None) and the requests issued
upload_image(image_url, outcome) ==
    [key |-> IF outcome = "ok" THEN ImageKey(image_url) ELSE <<>>,
     net |-> IF outcome = "download_error" THEN <<"download">>
             ELSE <<"download", "upload">>]

\* a send that posts without looking at the webhook URL
send_feishu_card_unchecked(url_set, outcome) ==
    [ok |-> (outcome = "ok"), net |-> <<"webhook">>]

\* [ok, net]: the value returned and the requests issued
send_feishu_card(url_set, outcome) ==
    IF ~url_set THEN [ok |-> FALSE, net |-> <<>>]
    ELSE [ok |-> (outcome = "ok"), net |-> <<"webhook">>]

\* "**[{}]({})**\n{}".format(name, url, desc)
md_text(item) ==
    <<"*", "*", "[">> \o item.name \o <<"]", "(">> \o item.url
        \o <<")", "*", "*", "\n">> \o item.desc

DivElement(item) == [tag |-> "div", content |-> md_text(item)]
ImgElement(image_key) == [tag |-> "img", img_key |-> image_key]

\* card titles; the issue number they embed is left out
IntroTitle == [card |-> "intro", title |-> <<>>]
CatTitle(cat) == [card |-> "category", title |-> cat.title]

\* the two fixed elements of the intro card
intro_elements == <<[tag |-> "div"], [tag |-> "action"]>>

CardCall(title, elements, sent, cat) ==
    [title |-> title, elements |-> elements, ok |-> sent.ok, cat |-> cat]

-----------------------------------------------------------------------------
(* notify_feishu.main *)

MainLines == {LineH3, LineH3B, LineItem, LineItemBlank, LineImgMd}

\* one category of MaxElements + 1 projects
LongDocument == <<LineH3>> \o [k \in 1..(MaxElements + 1) |-> LineItem]

MainDocuments == SeqsUpTo(MainLines, MaxMainLines) \cup {LongDocument}

Init ==
    /\ pc = "start"
    /\ argv_file \in {"none", "missing", "exists"}
    /\ lines \in (IF argv_file = "exists" THEN MainDocuments ELSE {<<>>})
    /\ idx = 1
    /\ current_category = None
    /\ categories = <<>>
    /\ webhook_url \in BOOLEAN
    /\ app_creds \in BOOLEAN
    /\ access_token = "None"
    /\ cat_i = 0
    /\ item_i = 0
    /\ cat_elements = <<>>
    /\ cardLog = <<>>
    /\ uploadLog = <<>>
    /\ netLog = <<>>
    /\ exit_status = "running"
    /\ HistIdle

\* sys.argv has no file argument, or the file does not exist: sys.exit(1)
ExitNoFile ==
    /\ pc = "start"
    /\ argv_file # "exists"
    /\ pc' = "done"
    /\ exit_status' = "1"
    /\ UNCHANGED <<lines, idx, current_category, categories, argv_file, webhook_url,
                   app_creds, access_token, cat_i, item_i, cat_elements, cardLog,
                   uploadLog, netLog, histVars>>

\* the credentials are set: ask for an access token
GetToken ==
    /\ pc = "start"
    /\ argv_file = "exists"
    /\ app_creds
    /\ \E outcome \in TokenOutcomes :
          LET r == get_tenant_access_token(outcome)
          IN  /\ access_token' = r.token
              /\ netLog' = netLog \o r.net
    /\ pc' = "parse_loop"
    /\ UNCHANGED <<lines, idx, current_category, categories, argv_file, webhook_url,
                   app_creds, cat_i, item_i, cat_elements, cardLog, uploadLog,
                   exit_status, histVars>>

\* the credentials are not set: access_token stays None
NoCredentials ==
    /\ pc = "start"
    /\ argv_file = "exists"
    /\ ~app_creds
    /\ pc' = "parse_loop"
    /\ UNCHANGED <<lines, idx, current_category, categories, mainVars, histVars>>

\* `if not categories:` return
NoCategories ==
    /\ pc = "parsed"
    /\ categories = <<>>
    /\ pc' = "done"
    /\ exit_status' = "0"
    /\ UNCHANGED <<lines, idx, current_category, categories, argv_file, webhook_url,
                   app_creds, access_token, cat_i, item_i, cat_elements, cardLog,
                   uploadLog, netLog, histVars>>

\* 1. Send Intro Card, then enter the loop over the categories
SendIntro ==
    /\ pc = "parsed"
    /\ categories # <<>>
    /\ \E outcome \in SendOutcomes :
          LET sent == send_feishu_card(webhook_url, outcome)
          IN  /\ cardLog' = Append(cardLog, CardCall(IntroTitle, intro_elements, sent, 0))
              /\ netLog' = netLog \o sent.net
    /\ pc' = "render"
    /\ cat_i' = 1
    /\ item_i' = 1
    /\ cat_elements' = <<>>
    /\ UNCHANGED <<lines, idx, current_category, categories, argv_file, webhook_url,
                   app_creds, access_token, uploadLog, exit_status, histVars>>

InItems ==
    /\ pc = "render"
    /\ cat_i <= Len(categories)
    /\ item_i <= Len(categories[cat_i].items)

CurrentItem == categories[cat_i].items[item_i]

\* item['type'] == 'project'
RenderProject ==
    /\ InItems
    /\ CurrentItem.type = "project"
    /\ cat_elements' = Append(cat_elements, DivElement(CurrentItem))
    /\ item_i' = item_i + 1
    /\ UNCHANGED <<parseVars, argv_file, webhook_url, app_creds, access_token, cat_i,
                   cardLog, uploadLog, netLog, exit_status, histVars>>

\* an image branch that appends the element whatever upload_image returned
RenderImageUnchecked ==
    /\ InItems
    /\ CurrentItem.type = "image"
    /\ access_token # "None"
    /\ \E outcome \in UploadOutcomes :
          LET r == upload_image(CurrentItem.url, outcome)
          IN  /\ uploadLog' = Append(uploadLog,
                     [cat |-> cat_i, item |-> item_i, url |-> CurrentItem.url,
                      key |-> r.key])
              /\ netLog' = netLog \o r.net
              /\ cat_elements' = Append(cat_elements, ImgElement(r.key))
    /\ item_i' = item_i + 1
    /\ UNCHANGED <<parseVars, argv_file, webhook_url, app_creds, access_token, cat_i,
                   cardLog, exit_status, histVars>>

\* item['type'] == 'image' and access_token
RenderImage ==
    /\ InItems
    /\ CurrentItem.type = "image"
    /\ access_token # "None"
    /\ \E outcome \in UploadOutcomes :
          LET r == upload_image(CurrentItem.url, outcome)
          IN  /\ uploadLog' = Append(uploadLog,
                     [cat |-> cat_i, item |-> item_i, url |-> CurrentItem.url,
                      key |-> r.key])
              /\ netLog' = netLog \o r.net
              /\ cat_elements' = IF r.key # <<>>
                                 THEN Append(cat_elements, ImgElement(r.key))
                                 ELSE cat_elements
    /\ item_i' = item_i + 1
    /\ UNCHANGED <<parseVars, argv_file, webhook_url, app_creds, access_token, cat_i,
                   cardLog, exit_status, histVars>>

\* an image item while access_token is None: neither branch is taken
SkipImage ==
    /\ InItems
    /\ CurrentItem.type = "image"
    /\ access_token = "None"
    /\ item_i' = item_i + 1
    /\ UNCHANGED <<parseVars, argv_file, webhook_url, app_creds, access_token, cat_i,
                   cat_elements, cardLog, uploadLog, netLog, exit_status, histVars>>

EndOfItems ==
    /\ pc = "render"
    /\ cat_i <= Len(categories)
    /\ item_i > Len(categories[cat_i].items)

NextCategory ==
    /\ cat_i' = cat_i + 1
    /\ item_i' = 1
    /\ cat_elements' = <<>>

\* a loop that stops at the first category card that fails
SendCategoryStopOnFailure ==
    /\ EndOfItems
    /\ cat_elements # <<>>
    /\ \E outcome \in SendOutcomes :
          LET sent == send_feishu_card(webhook_url, outcome)
          IN  /\ cardLog' = Append(cardLog,
                     CardCall(CatTitle(categories[cat_i]), cat_elements, sent, cat_i))
              /\ netLog' = netLog \o sent.net
              /\ cat_i' = IF sent.ok THEN cat_i + 1 ELSE Len(categories) + 1
    /\ item_i' = 1
    /\ cat_elements' = <<>>
    /\ UNCHANGED <<parseVars, argv_file, webhook_url, app_creds, access_token,
                   uploadLog, exit_status, histVars>>

\* `if cat_elements:` send the category card (and sleep)
SendCategory ==
    /\ EndOfItems
    /\ cat_elements # <<>>
    /\ \E outcome \in SendOutcomes :
          LET sent == send_feishu_card(webhook_url, outcome)
          IN  /\ cardLog' = Append(cardLog,
                     CardCall(CatTitle(categories[cat_i]), cat_elements, sent, cat_i))
              /\ netLog' = netLog \o sent.net
    /\ NextCategory
    /\ UNCHANGED <<parseVars, argv_file, webhook_url, app_creds, access_token,
                   uploadLog, exit_status, histVars>>

\* a loop that sends the card of a category that has no element
SkipCategorySends ==
    /\ EndOfItems
    /\ cat_elements = <<>>
    /\ \E outcome \in SendOutcomes :
          LET sent == send_feishu_card(webhook_url, outcome)
          IN  /\ cardLog' = Append(cardLog,
                     CardCall(CatTitle(categories[cat_i]), cat_elements, sent, cat_i))
              /\ netLog' = netLog \o sent.net
    /\ NextCategory
    /\ UNCHANGED <<parseVars, argv_file, webhook_url, app_creds, access_token,
                   uploadLog, exit_status, histVars>>

\* no element: no card for this category
SkipCategory ==
    /\ EndOfItems
    /\ cat_elements = <<>>
    /\ NextCategory
    /\ UNCHANGED <<parseVars, argv_file, webhook_url, app_creds, access_token,
                   cardLog, uploadLog, netLog, exit_status, histVars>>

\* the loop over the categories is over: main returns
MainReturn ==
    /\ pc = "render"
    /\ cat_i > Len(categories)
    /\ pc' = "done"
    /\ exit_status' = "0"
    /\ UNCHANGED <<lines, idx, current_category, categories, argv_file, webhook_url,
                   app_creds, access_token, cat_i, item_i, cat_elements, cardLog,
                   uploadLog, netLog, histVars>>

Next ==
    \/ ExitNoFile
    \/ GetToken
    \/ NoCredentials
    \/ ParseStep
    \/ ParseReturn
    \/ NoCategories
    \/ SendIntro
    \/ RenderProject
    \/ RenderImage
    \/ SkipImage
    \/ SendCategory
    \/ SkipCategory
    \/ MainReturn

Spec == Init /\ [][Next]_vars

-----------------------------------------------------------------------------
(* Properties of notify_feishu.main, checked under Spec *)

Range(f) == {f[k] : k \in DOMAIN f}

\* the media reference upload_image returned for item j of category c, if any
KeysOf(c, j) ==
    {u.key : u \in {v \in Range(uploadLog) : v.cat = c /\ v.item = j /\ v.key # <<>>}}

\* the items of category c that have an element to show
Renderable(c) ==
    {j \in 1..Len(categories[c].items) :
        \/ categories[c].items[j].type = "project"
        \/ categories[c].items[j].type = "image" /\ KeysOf(c, j) # {}}

\* the element item j of category c is shown as
ElementOf(c, j) ==
    IF categories[c].items[j].type = "project"
    THEN DivElement(categories[c].items[j])
    ELSE [tag |-> "img", img_key |-> CHOOSE key \in KeysOf(c, j) : TRUE]

\* the elements of the card of category c: one per renderable item, in the
\* order of the items
ElementsOf(c) ==
    [k \in 1..Cardinality(Renderable(c)) |->
        ElementOf(c, CHOOSE j \in Renderable(c) :
                        Cardinality({i \in Renderable(c) : i <= j}) = k)]

Finished == pc = "done" /\ exit_status = "0"

\* the categories a card is due for
Due == {c \in 1..Len(categories) : Renderable(c) # {}}

\* the calls of send_feishu_card are: the intro card, then the card of each
\* category that is due, each once, in the order of the categories
CardsInOrder ==
    /\ Len(cardLog) = 1 + Cardinality(Due)
    /\ cardLog[1].cat = 0
    /\ cardLog[1].title = IntroTitle
    /\ \A k \in 2..Len(cardLog) :
          /\ cardLog[k].cat \in Due
          /\ cardLog[k].cat > cardLog[k - 1].cat
          /\ cardLog[k].title = CatTitle(categories[cardLog[k].cat])

\* C2: when main has returned, a category none of whose items yielded a
\* card element has no card among the calls of send_feishu_card, and the
\* first call was the intro card.
C2_EmptyCategoryNotSent ==
    Finished =>
        \A c \in 1..Len(categories) :
            Renderable(c) = {}
                => /\ \A k \in 1..Len(cardLog) : cardLog[k].cat # c
                   /\ cardLog # <<>>
                   /\ cardLog[1].title = IntroTitle

\* main returned on a document with a category that holds only images while
\* no access token was available
C2_Witness ==
    /\ Finished
    /\ access_token = "None"
    /\ \E c \in 1..Len(categories) :
          /\ categories[c].items # <<>>
          /\ \A j \in 1..Len(categories[c].items) :
                categories[c].items[j].type = "image"
          /\ \A k \in 1..Len(cardLog) : cardLog[k].cat # c
    /\ cardLog # <<>>

\* C3 as stated: in every run of main that returns, the intro card is
\* attempted first, then the card of each category that has an element,
\* once each and in order.
C3_EveryRunSendsIntro == Finished => CardsInOrder

\* C3 as amended: the same, in the runs in which parse_markdown returned at
\* least one category; whatever the results of the sends.
C3_CardsAttemptedInOrder ==
    (Finished /\ categories # <<>>) => CardsInOrder

\* main returned, the webhook URL being set, after the intro card and the
\* first category card failed, and a later card was still attempted
C3_Witness ==
    /\ Finished
    /\ webhook_url
    /\ Len(cardLog) >= 3
    /\ ~cardLog[1].ok
    /\ ~cardLog[2].ok

\* C4 as stated: with the webhook URL unset every send reports failure and
\* the run issues no network request.
C4_NoNetworkCall ==
    ~webhook_url
        => /\ \A k \in 1..Len(cardLog) : ~cardLog[k].ok
           /\ netLog = <<>>

\* C4 as amended: with the webhook URL unset every send reports failure and
\* nothing is posted to the webhook (the token request and the image
\* download and upload requests of the run are still issued).
C4_NoWebhookPost ==
    ~webhook_url
        => /\ \A k \in 1..Len(cardLog) : ~cardLog[k].ok
           /\ \A k \in 1..Len(netLog) : netLog[k] # "webhook"

\* main returned with the webhook URL unset after attempting the intro card
\* and a category card, having uploaded an image
C4_Witness ==
    /\ Finished
    /\ ~webhook_url
    /\ Len(cardLog) >= 2
    /\ \E k \in 1..Len(netLog) : netLog[k] = "upload"

\* C5: no card carries more than MaxElements elements (a larger category is
\* split over several cards).
C5_AtMostMaxElements ==
    \A k \in 1..Len(cardLog) : Len(cardLog[k].elements) <= MaxElements

\* C9: the card of a category carries exactly the elements of its items in
\* order: one per project, one per image whose upload returned a media
\* reference and none for any other image; upload_image is called only
\* with an access token, only for image items, at most once per item.
C9_ImageOnlyWithMediaRef ==
    /\ \A k \in 1..Len(cardLog) :
          cardLog[k].cat # 0 => cardLog[k].elements = ElementsOf(cardLog[k].cat)
    /\ uploadLog # <<>> => access_token # "None"
    /\ \A k \in 1..Len(uploadLog) :
          /\ categories[uploadLog[k].cat].items[uploadLog[k].item].type = "image"
          /\ categories[uploadLog[k].cat].items[uploadLog[k].item].url = uploadLog[k].url
          /\ \A m \in 1..Len(uploadLog) :
                (uploadLog[m].cat = uploadLog[k].cat /\ uploadLog[m].item = uploadLog[k].item)
                    => m = k

\* a category card was sent that shows a project and an uploaded image and
\* leaves out an image whose upload failed
C9_Witness ==
    \E k \in 1..Len(cardLog) :
        /\ cardLog[k].cat # 0
        /\ \E u \in Range(uploadLog) : u.cat = cardLog[k].cat /\ u.key = <<>>
        /\ \E u \in Range(uploadLog) : u.cat = cardLog[k].cat /\ u.key # <<>>
        /\ \E e \in Range(cardLog[k].elements) : e.tag = "div"
        /\ \E e \in Range(cardLog[k].elements) : e.tag = "img"

-----------------------------------------------------------------------------
(* daily_history.py *)

DigitChars == <<"0", "1", "2", "3", "4", "5", "6", "7", "8", "9">>
DigitValue(c) == CHOOSE k \in 0..9 : DigitChars[k + 1] = c

\* str(num)
RECURSIVE str(_)
str(num) ==
    IF num < 0 THEN <<"-">> \o str(-num)
    ELSE IF num < 10 THEN <<DigitChars[num + 1]>>
    ELSE str(num \div 10) \o <<DigitChars[(num % 10) + 1]>>

\* value of a non-empty sequence of digits
RECURSIVE DigitsValue(_)
DigitsValue(ds) ==
    IF ds = <<>> THEN 0
    ELSE 10 * DigitsValue(SubSeq(ds, 1, Len(ds) - 1)) + DigitValue(ds[Len(ds)])

\* int(text.strip()): <<n>>, or <<>> for ValueError
int(text) ==
    LET t == Strip(text)
        signed == t # <<>> /\ Head(t) \in {"+", "-"}
        ds == IF signed THEN Tail(t) ELSE t
    IN  IF ds # <<>> /\ \A k \in 1..Len(ds) : ds[k] \in Digits
        THEN <<IF signed /\ Head(t) = "-" THEN -DigitsValue(ds) ELSE DigitsValue(ds)>>
        ELSE <<>>

\* the file is missing or does not hold an integer: 1
read_state(f) ==
    IF ~f.exists THEN 1
    ELSE IF int(f.text) = <<>> THEN 1
    ELSE int(f.text)[1]

\* the state file after write_state(num)
write_state(num) == [exists |-> TRUE, text |-> str(num)]

\* '{:02d}'.format(num)
Format02d(num) == IF Len(str(num)) >= 2 THEN str(num) ELSE <<"0">> \o str(num)

\* the numeric part of the name of the content file found, <<>> for None
get_content_file(num, files) ==
    IF Format02d(num) \in files THEN Format02d(num)
    ELSE IF str(num) \in files THEN str(num)
    ELSE <<>>

\* what .github/history_state may hold before the first run
StateFiles ==
    {[exists |-> FALSE, text |-> <<>>]}
    \cup {[exists |-> TRUE, text |-> t] :
            t \in {str(n) : n \in 0..MaxIssue}
                  \cup {<<>>, <<"x">>, <<" ", "2", "\n">>, <<"0", "3">>, <<"-", "1">>}}

\* names content/HelloGitHub<name>.md may have
ContentNames == {Format02d(n) : n \in 1..MaxIssue} \cup {str(n) : n \in 1..MaxIssue}

NotifyIdle ==
    /\ pc = "done" /\ lines = <<>> /\ idx = 1 /\ current_category = None
    /\ categories = <<>> /\ ParseIdle

InitHistory ==
    /\ hpc = "idle"
    /\ state_file \in StateFiles
    /\ content_files \in SUBSET ContentNames
    /\ notify_script \in BOOLEAN
    /\ current_num = 0
    /\ file_path = <<>>
    /\ notify_status = "none"
    /\ writes = <<>>
    /\ runs = 0
    /\ NotifyIdle

\* main starts: read_state and get_content_file
ReadState ==
    /\ hpc = "idle"
    /\ runs < MaxRuns
    /\ current_num' = read_state(state_file)
    /\ file_path' = get_content_file(current_num', content_files)
    /\ notify_status' = "none"
    /\ runs' = runs + 1
    /\ hpc' = "located"
    /\ UNCHANGED <<state_file, content_files, notify_script, writes, parseVars, mainVars>>

\* `if not file_path:` return
NoContentFile ==
    /\ hpc = "located"
    /\ file_path = <<>>
    /\ hpc' = "idle"
    /\ UNCHANGED <<state_file, content_files, notify_script, current_num, file_path,
                   notify_status, writes, runs, parseVars, mainVars>>

\* the notify script does not exist: sys.exit(1)
NoNotifyScript ==
    /\ hpc = "located"
    /\ file_path # <<>>
    /\ ~notify_script
    /\ hpc' = "idle"
    /\ UNCHANGED <<state_file, content_files, notify_script, current_num, file_path,
                   notify_status, writes, runs, parseVars, mainVars>>

\* subprocess.check_call runs the notify script, which exits with some status
RunNotify ==
    /\ hpc = "located"
    /\ file_path # <<>>
    /\ notify_script
    /\ notify_status' \in {"0", "1"}
    /\ hpc' = "returned"
    /\ UNCHANGED <<state_file, content_files, notify_script, current_num, file_path,
                   writes, runs, parseVars, mainVars>>

\* check_call returned: increment and save state
SaveState ==
    /\ hpc = "returned"
    /\ notify_status = "0"
    /\ state_file' = write_state(current_num + 1)
    /\ writes' = Append(writes, current_num + 1)
    /\ hpc' = "idle"
    /\ UNCHANGED <<content_files, notify_script, current_num, file_path,
                   notify_status, runs, parseVars, mainVars>>

\* a driver that saves the next number although the subprocess failed
NotifyFailedSaves ==
    /\ hpc = "returned"
    /\ notify_status # "0"
    /\ state_file' = write_state(current_num + 1)
    /\ writes' = Append(writes, current_num + 1)
    /\ hpc' = "idle"
    /\ UNCHANGED <<content_files, notify_script, current_num, file_path,
                   notify_status, runs, parseVars, mainVars>>

\* check_call raised CalledProcessError: sys.exit(1)
NotifyFailed ==
    /\ hpc = "returned"
    /\ notify_status # "0"
    /\ hpc' = "idle"
    /\ UNCHANGED <<state_file, content_files, notify_script, current_num, file_path,
                   notify_status, writes, runs, parseVars, mainVars>>

NextHistory ==
    \/ ReadState
    \/ NoContentFile
    \/ NoNotifyScript
    \/ RunNotify
    \/ SaveState
    \/ NotifyFailed

SpecHistory == InitHistory /\ [][NextHistory]_vars

-----------------------------------------------------------------------------
(* Properties of daily_history.main, checked under SpecHistory *)

\* C10: a step changes the state file only after the notify subprocess of
\* the run exited with status 0, and the file then holds the decimal form
\* of the number read at the start of the run plus 1, so that the counter
\* read_state returns goes up by exactly 1; every other step (content file
\* missing, notify script missing, subprocess failed) leaves the file as it
\* is.  Hence the counter never decreases and never skips a number.
C10_CounterAdvancesByOne ==
    [][/\ state_file' # state_file
            => /\ hpc = "returned"
               /\ notify_status = "0"
               /\ file_path # <<>>
               /\ notify_script
               /\ current_num = read_state(state_file)
               /\ state_file' = [exists |-> TRUE, text |-> str(current_num + 1)]
               /\ read_state(state_file') = read_state(state_file) + 1
       /\ read_state(state_file') \in
              {read_state(state_file), read_state(state_file) + 1}]_vars

\* two runs succeeded and wrote consecutive numbers, and a third failed and
\* wrote nothing
C10_Witness ==
    /\ hpc = "idle"
    /\ runs = 3
    /\ notify_status = "1"
    /\ Len(writes) = 2
    /\ writes[2] = writes[1] + 1
    /\ state_file.text = str(writes[2])

====
